---- MODULE Spec2Model ----
(***************************************************************************)
(* A model of the multi-context configuration engine of lenses-go          *)
(* (configuration.go): ClientConfiguration, Configuration and their        *)
(* methods.  Go strings that the code inspects byte by byte (the Host) are *)
(* sequences of one-character strings; indexes are 0-based as in Go, with  *)
(* -1 for "not found".                                                      *)
(***************************************************************************)
EXTENDS Integers, Sequences, FiniteSets, TLC

VARIABLES
    heap,      \* the ClientConfiguration objects, by address
    conf,      \* the Configuration values: conf["c"] and its clone conf["c2"]
    cloned,    \* whether c2 = c.Clone() has run
    panicked,  \* a Go runtime panic ended the run
    recv,      \* the receiver of a ClientConfiguration method called on its own
    call,      \* the last call: its name, arguments and result
    pre,       \* the receiver as it was before the last call
    files,     \* the directory searched for a configuration file
    hook       \* the run of the command line's pre-run hook

vars == <<heap, conf, cloned, panicked, recv, call, pre, files, hook>>

----------------------------------------------------------------------------
(* Bounds of the model. *)

\* Hosts of the host-normalization specification: a scheme prefix followed by
\* any string of at most MaxHostLen characters of HostAlphabet.
MaxHostLen == 5

\* FormatHost is called at most MaxFormatCalls times on one receiver.
MaxFormatCalls == 2

\* A configuration file holds at most MaxContexts named contexts.
MaxContexts == 2

\* At most MaxCalls calls are made on a Configuration.
MaxCalls == 3

\* At most MaxCloneCalls calls are made on a clone.
MaxCloneCalls == 2

\* A searched directory holds at most MaxFiles of the configuration filenames.
MaxFiles == 2

\* The pre-run hook's loop runs the configure command at most
\* MaxConfigureRuns times.
MaxConfigureRuns == 2

----------------------------------------------------------------------------
(* Strings. *)

HostAlphabet == {"a", ":", "/", "4", "3"}

HTTP == <<"h", "t", "t", "p", ":", "/", "/">>
HTTPS == <<"h", "t", "t", "p", "s", ":", "/", "/">>
SchemeSep == <<":", "/", "/">>
Port80 == <<"8", "0">>
Port443 == <<"4", "4", "3">>

\* strings.LastIndexByte(s, ch)
LastIndexByte(s, ch) ==
    LET at == {i \in 1..Len(s) : s[i] = ch}
    IN  IF at = {} THEN -1
        ELSE (CHOOSE i \in at : \A j \in at : j <= i) - 1

\* strings.Index(s, sub)
Index(s, sub) ==
    LET at == {i \in 1..(Len(s) - Len(sub) + 1) :
                  SubSeq(s, i, i + Len(sub) - 1) = sub}
    IN  IF at = {} THEN -1
        ELSE (CHOOSE i \in at : \A j \in at : i <= j) - 1

\* strings.HasPrefix(s, p)
HasPrefix(s, p) == Len(s) >= Len(p) /\ SubSeq(s, 1, Len(p)) = p

----------------------------------------------------------------------------
(* ClientConfiguration and its methods. *)

\* The nil Authentication and the two kinds of credentials.
NilAuth == "nil"
Authentications == {NilAuth, "BasicAuthentication", "KerberosAuthentication"}

\* new(ClientConfiguration): the zero value.
ZeroClient ==
    [Host |-> <<>>, Authentication |-> NilAuth, Token |-> "",
     Timeout |-> "", Debug |-> FALSE]

\* A variant of FormatHost that never infers https from port 443.
FormatHost_AlwaysHttp(c) ==
    IF Len(c.Host) = 0 THEN c
    ELSE
      LET h1 == IF c.Host[Len(c.Host)] = "/"
                THEN SubSeq(c.Host, 1, Len(c.Host) - 1)
                ELSE c.Host
          portIdx == LastIndexByte(h1, ":")
          schemaIdx == Index(h1, SchemeSep)
          hasSchema == schemaIdx >= 0
          hasPort == portIdx > schemaIdx + 1
          port0 == IF hasPort THEN SubSeq(h1, portIdx + 2, Len(h1)) ELSE Port80
          h2 == IF ~hasSchema THEN HTTP \o h1 ELSE h1
          port == IF hasSchema /\ ~hasPort /\ HasPrefix(h2, HTTPS)
                  THEN Port443
                  ELSE port0
          h3 == IF ~hasPort THEN h2 \o <<":">> \o port ELSE h2
      IN  [c EXCEPT !.Host = h3]

\* (c *ClientConfiguration) FormatHost(): the receiver afterwards.
FormatHost(c) ==
    IF Len(c.Host) = 0 THEN c
    ELSE
      LET h1 == IF c.Host[Len(c.Host)] = "/"
                THEN SubSeq(c.Host, 1, Len(c.Host) - 1)
                ELSE c.Host
          portIdx == LastIndexByte(h1, ":")
          schemaIdx == Index(h1, SchemeSep)
          hasSchema == schemaIdx >= 0
          hasPort == portIdx > schemaIdx + 1
          port0 == IF hasPort THEN SubSeq(h1, portIdx + 2, Len(h1)) ELSE Port80
          h2 == IF ~hasSchema
                THEN (IF port0 = Port443 THEN HTTPS \o h1 ELSE HTTP \o h1)
                ELSE h1
          port == IF hasSchema /\ ~hasPort /\ HasPrefix(h2, HTTPS)
                  THEN Port443
                  ELSE port0
          h3 == IF ~hasPort THEN h2 \o <<":">> \o port ELSE h2
      IN  [c EXCEPT !.Host = h3]

\* (c *ClientConfiguration) IsValid(): the receiver afterwards and the result.
ClientConfiguration_IsValid(c) ==
    IF Len(c.Host) = 0 THEN [c |-> c, ret |-> FALSE]
    ELSE
      LET f == FormatHost(c)
      IN  [c |-> f,
           ret |-> f.Host # <<>> /\ (f.Token # "" \/ f.Authentication # NilAuth)]

\* A variant of FillHost that keeps a host the receiver already has.
FillHost_OnlyIfEmpty(c, other) ==
    IF other.Host # <<>> /\ c.Host = <<>>
    THEN [c EXCEPT !.Host = other.Host] ELSE c

\* Fill, first statement: other's Host, when not empty and not the receiver's.
FillHost(c, other) ==
    IF other.Host # <<>> /\ other.Host # c.Host
    THEN [c EXCEPT !.Host = other.Host] ELSE c

\* Fill, second statement: other's Authentication, when not nil.
FillAuthentication(c, other) ==
    IF other.Authentication # NilAuth
    THEN [c EXCEPT !.Authentication = other.Authentication] ELSE c

\* A variant of FillToken that keeps a token the receiver already has.
FillToken_OnlyIfEmpty(c, other) ==
    IF other.Token # "" /\ c.Token = ""
    THEN [c EXCEPT !.Token = other.Token] ELSE c

\* Fill, third statement: other's Token, when not empty and not the receiver's.
FillToken(c, other) ==
    IF other.Token # "" /\ other.Token # c.Token
    THEN [c EXCEPT !.Token = other.Token] ELSE c

\* Fill, fourth statement: other's Timeout, likewise.
FillTimeout(c, other) ==
    IF other.Timeout # "" /\ other.Timeout # c.Timeout
    THEN [c EXCEPT !.Timeout = other.Timeout] ELSE c

\* Fill, fifth statement: other's Debug, when it differs.
FillDebug(c, other) ==
    IF c.Debug # other.Debug
    THEN [c EXCEPT !.Debug = other.Debug] ELSE c

\* (c *ClientConfiguration) Fill(other): the receiver afterwards and the result.
Fill(c, other) ==
    LET c1 == FillHost(c, other)
        c2 == FillAuthentication(c1, other)
        c3 == FillToken(c2, other)
        c4 == FillTimeout(c3, other)
        c5 == FillDebug(c4, other)
    IN  ClientConfiguration_IsValid(c5)

----------------------------------------------------------------------------
(* Configuration and its methods.  A Configuration holds pointers: Contexts *)
(* maps a name to the address of a ClientConfiguration in the heap.  Each   *)
(* method is given the Configuration c and the heap h and yields both as    *)
(* they are afterwards, with the result.                                    *)

\* var DefaultContextKey = "master"
DefaultContextKey == "master"

ContextNames == <<DefaultContextKey, "dev", "qa", "prod">>

Names == {ContextNames[i] : i \in 1..MaxContexts}

\* The names a caller may pass or set as current: the empty string too.
AnyNames == Names \cup {""}

Targets == {"c", "c2"}

\* The address of a newly allocated ClientConfiguration that Configuration t
\* will hold under name: no two (t, name) share it, and it is free whenever
\* the allocation replaces or creates t's entry under name.
Alloc(t, name) == <<t, name>>

\* m[k] = v on a map, or *a = v on the heap.
Store(m, k, v) == [x \in DOMAIN m \cup {k} |-> IF x = k THEN v ELSE m[x]]

\* delete(m, k)
Delete(m, k) == [x \in DOMAIN m \ {k} |-> m[x]]

\* cfg.IsValid() through each pointer of the set as: hosts get normalized.
Visit(h, as) ==
    [a \in DOMAIN h |->
        IF a \in as THEN ClientConfiguration_IsValid(h[a]).c ELSE h[a]]

\* The names of c whose entry IsValid reports valid.
ValidNames(c, h) ==
    {n \in DOMAIN c.Contexts : ClientConfiguration_IsValid(h[c.Contexts[n]]).ret}

\* A variant of Configuration.IsValid that looks at the current entry only.
Configuration_IsValid_CurrentOnly(c, h) ==
    IF c.CurrentContext \in DOMAIN c.Contexts
    THEN {[c |-> c, h |-> Visit(h, {c.Contexts[c.CurrentContext]}),
           ret |-> c.CurrentContext \in ValidNames(c, h)]}
    ELSE {[c |-> c, h |-> h, ret |-> FALSE]}

\* (c *Configuration) IsValid(): every outcome the map's iteration order
\* allows.  The loop returns at the first invalid entry; the entries visited
\* before it are valid ones, in any number.
Configuration_IsValid(c, h) ==
    LET keys == DOMAIN c.Contexts
        valid == ValidNames(c, h)
    IN  IF keys = {} THEN {[c |-> c, h |-> h, ret |-> FALSE]}
        ELSE IF valid = keys
        THEN {[c |-> c, h |-> Visit(h, {c.Contexts[n] : n \in keys}), ret |-> TRUE]}
        ELSE {[c |-> c,
               h |-> Visit(h, {c.Contexts[n] : n \in before \cup {k}}),
               ret |-> FALSE] :
                  k \in keys \ valid, before \in SUBSET valid}

\* A variant of GetCurrent that creates the entry under the empty name
\* instead of the default key.
GetCurrent_NoDefaultKey(t, c, h) ==
    LET c1 == [c EXCEPT !.ContextsNil = FALSE]
        cur == c1.CurrentContext
    IN  IF cur \in DOMAIN c1.Contexts
        THEN [c |-> c1, h |-> h, ret |-> c1.Contexts[cur]]
        ELSE [c |-> [c1 EXCEPT !.Contexts = Store(@, cur, Alloc(t, cur))],
              h |-> Store(h, Alloc(t, cur), ZeroClient),
              ret |-> Alloc(t, cur)]

\* A variant of GetCurrent that returns the new entry without storing it.
GetCurrent_NoStore(t, c, h) ==
    LET c1 == [c EXCEPT !.ContextsNil = FALSE]
    IN  IF c1.CurrentContext \in DOMAIN c1.Contexts
        THEN [c |-> c1, h |-> h, ret |-> c1.Contexts[c1.CurrentContext]]
        ELSE
          LET cur == IF c1.CurrentContext = "" THEN DefaultContextKey
                     ELSE c1.CurrentContext
          IN  [c |-> [c1 EXCEPT !.CurrentContext = cur],
               h |-> Store(h, Alloc(t, cur), ZeroClient),
               ret |-> Alloc(t, cur)]

\* (c *Configuration) GetCurrent(): ret is the pointer returned.
GetCurrent(t, c, h) ==
    LET c1 == [c EXCEPT !.ContextsNil = FALSE]
    IN  IF c1.CurrentContext \in DOMAIN c1.Contexts
        THEN [c |-> c1, h |-> h, ret |-> c1.Contexts[c1.CurrentContext]]
        ELSE
          LET cur == IF c1.CurrentContext = "" THEN DefaultContextKey
                     ELSE c1.CurrentContext
              a == Alloc(t, cur)
          IN  [c |-> [c1 EXCEPT !.CurrentContext = cur,
                                !.Contexts = Store(@, cur, a)],
               h |-> Store(h, a, ZeroClient),
               ret |-> a]

\* (c *Configuration) RemoveTokens()
RemoveTokens(c, h) ==
    LET as == {c.Contexts[n] : n \in DOMAIN c.Contexts}
    IN  [c |-> c,
         h |-> [a \in DOMAIN h |->
                   IF a \in as THEN [h[a] EXCEPT !.Token = ""] ELSE h[a]]]

\* (c *Configuration) SetCurrent(currentContextName)
SetCurrent(c, currentContextName) ==
    [c EXCEPT !.CurrentContext = currentContextName]

\* (c *Configuration) CurrentContextExists()
CurrentContextExists(c) == c.CurrentContext \in DOMAIN c.Contexts

\* A variant of FindReplacement that does not skip the context to delete.
FindReplacement_NoSkip(c, h, contextName) ==
    LET others == DOMAIN c.Contexts
        valid == ValidNames(c, h)
    IN  IF valid = {}
        THEN {[found |-> FALSE, name |-> "", visited |-> others]}
        ELSE {[found |-> TRUE, name |-> k, visited |-> before \cup {k}] :
                 k \in valid, before \in SUBSET (others \ valid)}

\* A variant of FindReplacement that takes the first other entry it meets,
\* valid or not.
FindReplacement_AnyEntry(c, h, contextName) ==
    LET others == DOMAIN c.Contexts \ {contextName}
    IN  IF others = {}
        THEN {[found |-> FALSE, name |-> "", visited |-> others]}
        ELSE {[found |-> TRUE, name |-> k, visited |-> {k}] : k \in others}

\* RemoveContext, the loop that looks for a valid context to make current:
\* every outcome the map's iteration order allows, as the name chosen ("" and
\* found FALSE when the loop ends without one) and the names visited.
FindReplacement(c, h, contextName) ==
    LET others == DOMAIN c.Contexts \ {contextName}
        valid == ValidNames(c, h) \ {contextName}
    IN  IF valid = {}
        THEN {[found |-> FALSE, name |-> "", visited |-> others]}
        ELSE {[found |-> TRUE, name |-> k, visited |-> before \cup {k}] :
                 k \in valid, before \in SUBSET (others \ valid)}

\* A variant of RemoveContext that deletes the entry whether or not a
\* replacement was found.
RemoveContext_DeletesAnyway(c, h, contextName) ==
    IF contextName \in DOMAIN c.Contexts
    THEN
      IF c.CurrentContext = contextName
      THEN {[c |-> [(IF r.found THEN SetCurrent(c, r.name) ELSE c) EXCEPT
                       !.Contexts = Delete(@, contextName)],
             h |-> Visit(h, {c.Contexts[n] : n \in r.visited}),
             ret |-> r.found] : r \in FindReplacement(c, h, contextName)}
      ELSE {[c |-> [c EXCEPT !.Contexts = Delete(@, contextName)],
             h |-> h, ret |-> TRUE]}
    ELSE {[c |-> c, h |-> h, ret |-> FALSE]}

\* A variant of RemoveContext that looks for a replacement also when the
\* entry to remove is not the current one.
RemoveContext_AlwaysReplaces(c, h, contextName) ==
    IF contextName \in DOMAIN c.Contexts
    THEN {[c |-> IF r.found
                 THEN [SetCurrent(c, r.name) EXCEPT
                          !.Contexts = Delete(@, contextName)]
                 ELSE c,
           h |-> Visit(h, {c.Contexts[n] : n \in r.visited}),
           ret |-> r.found] : r \in FindReplacement(c, h, contextName)}
    ELSE {[c |-> c, h |-> h, ret |-> FALSE]}

\* (c *Configuration) RemoveContext(contextName): every outcome.
RemoveContext(c, h, contextName) ==
    IF contextName \in DOMAIN c.Contexts
    THEN
      IF c.CurrentContext = contextName
      THEN {[c |-> IF r.found
                   THEN [SetCurrent(c, r.name) EXCEPT
                            !.Contexts = Delete(@, contextName)]
                   ELSE c,
             h |-> Visit(h, {c.Contexts[n] : n \in r.visited}),
             ret |-> r.found] : r \in FindReplacement(c, h, contextName)}
      ELSE {[c |-> [c EXCEPT !.Contexts = Delete(@, contextName)],
             h |-> h, ret |-> TRUE]}
    ELSE {[c |-> c, h |-> h, ret |-> FALSE]}

\* A variant of Clone that copies the pointers, not the entries.
Clone_Shallow(t, c, h) ==
    [c |-> [CurrentContext |-> c.CurrentContext,
            Contexts |-> c.Contexts,
            ContextsNil |-> FALSE],
     h |-> h]

\* (c *Configuration) Clone(): the clone, held as Configuration t, and the
\* heap with the copies (vCopy := *v; clone.Contexts[k] = &vCopy).
Clone(t, c, h) ==
    LET keys == DOMAIN c.Contexts
        fresh == {Alloc(t, k) : k \in keys}
    IN  [c |-> [CurrentContext |-> c.CurrentContext,
                Contexts |-> [k \in keys |-> Alloc(t, k)],
                ContextsNil |-> FALSE],
         h |-> [a \in DOMAIN h \cup fresh |->
                   IF a \in fresh THEN h[c.Contexts[a[2]]] ELSE h[a]]]

\* (c *Configuration) FillCurrent(cfg): panic is the assignment to an entry
\* of a nil map.
FillCurrent(t, c, h, cfg) ==
    LET context == c.CurrentContext
    IN  IF context \notin DOMAIN c.Contexts
        THEN
          LET v == ClientConfiguration_IsValid(cfg)
          IN  IF v.ret
              THEN IF c.ContextsNil
                   THEN [c |-> c, h |-> h, panic |-> TRUE]
                   ELSE [c |-> [c EXCEPT !.Contexts =
                                   Store(@, context, Alloc(t, context))],
                         h |-> Store(h, Alloc(t, context), v.c),
                         panic |-> FALSE]
              ELSE [c |-> c, h |-> h, panic |-> FALSE]
        ELSE [c |-> c,
              h |-> Store(h, c.Contexts[context],
                          Fill(h[c.Contexts[context]], cfg).c),
              panic |-> FALSE]

----------------------------------------------------------------------------
(* The state outside a specification's own part. *)

\* Configuration{}: the zero value, its Contexts map nil.
ZeroConfiguration ==
    [CurrentContext |-> "", Contexts |-> <<>>, ContextsNil |-> TRUE]

NoCall == [op |-> "none", n |-> 0]

IdleConfigurations ==
    /\ heap = <<>>
    /\ conf = [t \in {"c", "c2"} |-> ZeroConfiguration]
    /\ cloned = FALSE
    /\ panicked = FALSE

\* No directory is searched and no command runs.
IdleHook == [pc |-> "idle"]

IdleCommandLine ==
    /\ files = <<>>
    /\ hook = IdleHook

----------------------------------------------------------------------------
(* The calls on a Configuration, as steps.  Each records the call and the   *)
(* Configuration as it was before it.                                       *)

\* What Configuration t holds: its fields, its entries read through the
\* pointers.
View(t) ==
    [CurrentContext |-> conf[t].CurrentContext,
     ContextsNil |-> conf[t].ContextsNil,
     Entries |-> [n \in DOMAIN conf[t].Contexts |-> heap[conf[t].Contexts[n]]]]

\* The heap without the objects no Configuration points to.
Collect(h, cf) ==
    [a \in UNION {{cf[t].Contexts[n] : n \in DOMAIN cf[t].Contexts} :
                     t \in Targets} |-> h[a]]

\* A call can be made: no panic has ended the run.
CanCall == ~panicked /\ call.n < MaxCalls

\* Configuration t and the heap become c1 and h1, and the call is recorded.
Returns(t, c1, h1, rec) ==
    /\ conf' = [conf EXCEPT ![t] = c1]
    /\ heap' = Collect(h1, [conf EXCEPT ![t] = c1])
    /\ call' = rec
    /\ pre' = View(t)
    /\ UNCHANGED <<cloned, panicked, recv, files, hook>>

CallIsValid(t) ==
    /\ CanCall
    /\ \E r \in Configuration_IsValid(conf[t], heap) :
          Returns(t, r.c, r.h, [op |-> "IsValid", n |-> call.n + 1, target |-> t, ret |-> r.ret])

CallGetCurrent(t) ==
    /\ CanCall
    /\ LET r == GetCurrent(t, conf[t], heap)
       IN  Returns(t, r.c, r.h,
                   [op |-> "GetCurrent", n |-> call.n + 1, target |-> t, ret |-> r.ret])

CallRemoveTokens(t) ==
    /\ CanCall
    /\ LET r == RemoveTokens(conf[t], heap)
       IN  Returns(t, r.c, r.h, [op |-> "RemoveTokens", n |-> call.n + 1, target |-> t])

CallSetCurrent(t, name) ==
    /\ CanCall
    /\ Returns(t, SetCurrent(conf[t], name), heap,
               [op |-> "SetCurrent", n |-> call.n + 1, target |-> t, name |-> name])

CallRemoveContext(t, name) ==
    /\ CanCall
    /\ \E r \in RemoveContext(conf[t], heap, name) :
          Returns(t, r.c, r.h,
                  [op |-> "RemoveContext", n |-> call.n + 1, target |-> t, name |-> name,
                   ret |-> r.ret])

CallFillCurrent(t, cfg) ==
    /\ CanCall
    /\ LET r == FillCurrent(t, conf[t], heap, cfg)
       IN  /\ conf' = [conf EXCEPT ![t] = r.c]
           /\ heap' = Collect(r.h, [conf EXCEPT ![t] = r.c])
           /\ panicked' = r.panic
    /\ call' = [op |-> "FillCurrent", n |-> call.n + 1, target |-> t, other |-> cfg]
    /\ pre' = View(t)
    /\ UNCHANGED <<cloned, recv, files, hook>>

----------------------------------------------------------------------------
(* Spec: one Configuration, decoded from a file or built by the caller, and *)
(* any sequence of calls on it.                                             *)

HostA == <<"a", ":", "4", "4", "3", "/">>

\* The entries a Configuration starts with: empty; a host alone, not
\* normalized; a host, not normalized, with a token.
InitClients ==
    {ZeroClient,
     [ZeroClient EXCEPT !.Host = HostA],
     [ZeroClient EXCEPT !.Host = HostA, !.Token = "t1"]}

\* What callers pass to FillCurrent: a token alone; a complete configuration.
FillArgs ==
    {[ZeroClient EXCEPT !.Token = "t1"],
     [Host |-> HostA, Authentication |-> "BasicAuthentication",
      Token |-> "", Timeout |-> "5s", Debug |-> TRUE]}

InitClient(t) ==
    \E keys \in SUBSET Names, cur \in AnyNames, isNil \in BOOLEAN :
      /\ isNil => keys = {}
      /\ heap \in [{Alloc(t, n) : n \in keys} -> InitClients]
      /\ conf = [x \in Targets |->
                    IF x = t
                    THEN [CurrentContext |-> cur,
                          Contexts |-> [n \in keys |-> Alloc(t, n)],
                          ContextsNil |-> isNil]
                    ELSE ZeroConfiguration]

Init ==
    /\ InitClient("c")
    /\ cloned = FALSE
    /\ panicked = FALSE
    /\ recv = ZeroClient
    /\ call = NoCall
    /\ pre = View("c")
    /\ IdleCommandLine

IsValidStep == CallIsValid("c")
GetCurrentStep == CallGetCurrent("c")
RemoveTokensStep == CallRemoveTokens("c")
SetCurrentStep == \E name \in Names : CallSetCurrent("c", name)
RemoveContextStep == \E name \in AnyNames : CallRemoveContext("c", name)
FillCurrentStep == \E cfg \in FillArgs : CallFillCurrent("c", cfg)

Next ==
    \/ IsValidStep
    \/ GetCurrentStep
    \/ RemoveTokensStep
    \/ SetCurrentStep
    \/ RemoveContextStep
    \/ FillCurrentStep

Spec == Init /\ [][Next]_vars

----------------------------------------------------------------------------
(* The claims about one Configuration, checked under Spec.                  *)

\* The validity rule of an entry: a host, and a token or credentials.
ValidEntry(e) ==
    e.Host # <<>> /\ (e.Token # "" \/ e.Authentication # NilAuth)

\* The last call was RemoveContext on the only entry of the configuration.
RemovedSole ==
    /\ call.op = "RemoveContext"
    /\ DOMAIN pre.Entries = {call.name}

\* C2 as stated: RemoveContext on the sole entry returns false and leaves
\* contexts unchanged, whatever currentContext is.
C2_SoleNeverRemoved ==
    RemovedSole => (~call.ret /\ View("c").Entries = pre.Entries)

\* C2, amended: RemoveContext on the sole entry returns false and leaves the
\* configuration unchanged when that entry is the current context; when it
\* is not, it returns true and contexts becomes empty.
C2_SoleRemovedUnlessCurrent ==
    RemovedSole =>
        IF pre.CurrentContext = call.name
        THEN ~call.ret /\ View("c") = pre
        ELSE call.ret /\ DOMAIN View("c").Entries = {}

\* RemoveContext refused to remove the sole entry, the current one, which is
\* a valid one.
C2_Witness ==
    /\ RemovedSole
    /\ pre.CurrentContext = call.name
    /\ ValidEntry(pre.Entries[call.name])
    /\ ~call.ret

\* The last call was RemoveContext on the current context while no other
\* entry was valid.
RemovedCurrentNoFallback ==
    /\ call.op = "RemoveContext"
    /\ call.name = pre.CurrentContext
    /\ \A n \in DOMAIN pre.Entries \ {call.name} : ~ValidEntry(pre.Entries[n])

\* C4 as stated: with no valid fallback, RemoveContext on the current context
\* returns false and leaves every field of every entry as it was.
C4_RefusalChangesNothing ==
    RemovedCurrentNoFallback => (~call.ret /\ View("c") = pre)

\* C4, amended: it returns false, the names and currentContext are as before,
\* and so is every field of every entry except that, when the name is a key,
\* the host of every other entry is replaced by its normalized form.
C4_RefusalNormalizesHosts ==
    RemovedCurrentNoFallback =>
        /\ ~call.ret
        /\ View("c").CurrentContext = pre.CurrentContext
        /\ View("c").ContextsNil = pre.ContextsNil
        /\ DOMAIN View("c").Entries = DOMAIN pre.Entries
        /\ \A n \in DOMAIN pre.Entries :
              View("c").Entries[n] =
                 IF call.name \in DOMAIN pre.Entries /\ n # call.name
                 THEN FormatHost(pre.Entries[n])
                 ELSE pre.Entries[n]

\* A refused removal rewrote the host of another entry.
C4_Witness ==
    /\ RemovedCurrentNoFallback
    /\ ~call.ret
    /\ \E n \in DOMAIN pre.Entries :
          View("c").Entries[n].Host # pre.Entries[n].Host

\* The last call was RemoveContext on an existing entry that is not current.
RemovedNonCurrent ==
    /\ call.op = "RemoveContext"
    /\ call.name \in DOMAIN pre.Entries
    /\ call.name # pre.CurrentContext

\* C5: RemoveContext on an existing, non-current name returns true, removes
\* exactly that entry and leaves currentContext unchanged.
C5_NonCurrentRemoved ==
    RemovedNonCurrent =>
        /\ call.ret
        /\ DOMAIN View("c").Entries = DOMAIN pre.Entries \ {call.name}
        /\ \A n \in DOMAIN View("c").Entries :
              View("c").Entries[n] = pre.Entries[n]
        /\ View("c").CurrentContext = pre.CurrentContext

\* A non-current entry was removed and the current one is still there.
C5_Witness ==
    /\ RemovedNonCurrent
    /\ call.ret
    /\ pre.CurrentContext \in DOMAIN View("c").Entries

\* The last call was GetCurrent on the zero value Configuration{}.
GotCurrentOfZero ==
    /\ call.op = "GetCurrent"
    /\ pre.CurrentContext = ""
    /\ pre.ContextsNil

\* C6: GetCurrent on the zero value returns an entry, and afterwards
\* currentContext is "master" and contexts holds exactly one entry, under
\* "master", with every field empty.
C6_GetCurrentOfZero ==
    GotCurrentOfZero =>
        /\ call.ret \in DOMAIN heap
        /\ conf["c"].Contexts = [n \in {"master"} |-> call.ret]
        /\ View("c") = [CurrentContext |-> "master", ContextsNil |-> FALSE,
                        Entries |-> [n \in {"master"} |-> ZeroClient]]

\* GetCurrent ran on the zero value.
C6_Witness ==
    GotCurrentOfZero /\ DOMAIN View("c").Entries # {}

\* C8: Configuration.IsValid returns true iff contexts is non-empty and every
\* entry, not only the current one, is valid.
C8_IsValidAllEntries ==
    call.op = "IsValid" =>
        call.ret = (/\ DOMAIN pre.Entries # {}
                    /\ \A n \in DOMAIN pre.Entries : ValidEntry(pre.Entries[n]))

\* IsValid returned false though the current entry is valid: another is not.
C8_Witness ==
    /\ call.op = "IsValid"
    /\ ~call.ret
    /\ pre.CurrentContext \in DOMAIN pre.Entries
    /\ ValidEntry(pre.Entries[pre.CurrentContext])

\* C9: FillCurrent(other) completes normally; with no entry under
\* currentContext it stores one carrying other's authentication, token, timeout
\* and debug when other is valid and leaves contexts unchanged when it is not;
\* with an entry there, the entry becomes what Fill(other) makes of it.
C9_FillCurrentCompletes ==
    call.op = "FillCurrent" =>
        /\ ~panicked
        /\ LET cur == pre.CurrentContext
               post == View("c").Entries
           IN  IF cur \in DOMAIN pre.Entries
               THEN post = [pre.Entries EXCEPT
                               ![cur] = Fill(pre.Entries[cur], call.other).c]
               ELSE IF ValidEntry(call.other)
               THEN /\ cur \in DOMAIN post
                    /\ post[cur].Authentication = call.other.Authentication
                    /\ post[cur].Token = call.other.Token
                    /\ post[cur].Timeout = call.other.Timeout
                    /\ post[cur].Debug = call.other.Debug
               ELSE post = pre.Entries

\* The last call was RemoveContext on the current context and returned true.
RemovedCurrent ==
    /\ call.op = "RemoveContext"
    /\ call.name = pre.CurrentContext
    /\ call.ret

\* C14: when RemoveContext returns true for the current context, the name is
\* no longer a key, every other entry is still present and currentContext
\* names a remaining entry that is valid; and no RemoveContext turns a
\* configuration whose current context exists into one whose current context
\* does not exist.
C14_RemovalKeepsCurrent ==
    /\ RemovedCurrent =>
          /\ call.name \notin DOMAIN View("c").Entries
          /\ DOMAIN View("c").Entries = DOMAIN pre.Entries \ {call.name}
          /\ CurrentContextExists(conf["c"])
          /\ ValidEntry(View("c").Entries[View("c").CurrentContext])
    /\ (call.op = "RemoveContext" /\ pre.CurrentContext \in DOMAIN pre.Entries)
          => CurrentContextExists(conf["c"])

\* The current context was removed, another valid entry became current and
\* an invalid one was passed over.
C14_Witness ==
    /\ RemovedCurrent
    /\ View("c").CurrentContext # pre.CurrentContext
    /\ \E n \in DOMAIN View("c").Entries : ~ValidEntry(View("c").Entries[n])

\* The last call was GetCurrent and found no entry under currentContext.
GotCurrentCreated ==
    /\ call.op = "GetCurrent"
    /\ pre.CurrentContext \notin DOMAIN pre.Entries

\* C15: GetCurrent returns the stored entry and changes nothing when
\* currentContext is a key; when it is a non-empty name that is no key, it
\* keeps currentContext, inserts one empty entry under it and leaves the other
\* entries as they are.  Afterwards CurrentContextExists is true, and after a
\* call that created an entry Configuration.IsValid is false.
C15_GetCurrent ==
    call.op = "GetCurrent" =>
        /\ pre.CurrentContext \in DOMAIN pre.Entries =>
              /\ call.ret = conf["c"].Contexts[pre.CurrentContext]
              /\ View("c").Entries = pre.Entries
              /\ View("c").CurrentContext = pre.CurrentContext
        /\ (GotCurrentCreated /\ pre.CurrentContext # "") =>
              /\ View("c").CurrentContext = pre.CurrentContext
              /\ DOMAIN View("c").Entries =
                     DOMAIN pre.Entries \cup {pre.CurrentContext}
              /\ \A n \in DOMAIN View("c").Entries :
                    View("c").Entries[n] =
                       IF n = pre.CurrentContext THEN ZeroClient
                       ELSE pre.Entries[n]
        /\ CurrentContextExists(conf["c"])
        /\ GotCurrentCreated =>
              \A r \in Configuration_IsValid(conf["c"], heap) : ~r.ret

\* GetCurrent created an entry under a name set as current, beside entries
\* that are all valid.
C15_Witness ==
    /\ GotCurrentCreated
    /\ pre.CurrentContext # ""
    /\ DOMAIN pre.Entries # {}
    /\ \A n \in DOMAIN pre.Entries : ValidEntry(pre.Entries[n])

----------------------------------------------------------------------------
(* SpecClone: c2 = c.Clone(), then any sequence of calls on c2.             *)

CallClone ==
    /\ ~cloned
    /\ LET r == Clone("c2", conf["c"], heap)
       IN  /\ conf' = [conf EXCEPT !["c2"] = r.c]
           /\ heap' = Collect(r.h, [conf EXCEPT !["c2"] = r.c])
    /\ cloned' = TRUE
    /\ call' = [op |-> "Clone", n |-> call.n, target |-> "c"]
    /\ pre' = View("c")
    /\ UNCHANGED <<panicked, recv, files, hook>>

\* currentConfig := config.GetCurrent(); currentConfig.Token = "": a caller
\* writes a field through the pointer GetCurrent returns.
CallClearCurrentToken(t) ==
    /\ CanCall
    /\ LET r == GetCurrent(t, conf[t], heap)
       IN  Returns(t, r.c, [r.h EXCEPT ![r.ret].Token = ""],
                   [op |-> "ClearCurrentToken", n |-> call.n + 1, target |-> t])

\* The clone exists and can be called.
OnClone == cloned /\ call.n < MaxCloneCalls

CloneIsValidStep == OnClone /\ CallIsValid("c2")
CloneGetCurrentStep == OnClone /\ CallGetCurrent("c2")
CloneRemoveTokensStep == OnClone /\ CallRemoveTokens("c2")
CloneSetCurrentStep ==
    OnClone /\ \E name \in Names : CallSetCurrent("c2", name)
CloneRemoveContextStep ==
    OnClone /\ \E name \in AnyNames : CallRemoveContext("c2", name)
CloneFillCurrentStep ==
    OnClone /\ \E cfg \in FillArgs : CallFillCurrent("c2", cfg)
CloneClearTokenStep == OnClone /\ CallClearCurrentToken("c2")

NextClone ==
    \/ CallClone
    \/ CloneIsValidStep
    \/ CloneGetCurrentStep
    \/ CloneRemoveTokensStep
    \/ CloneSetCurrentStep
    \/ CloneRemoveContextStep
    \/ CloneFillCurrentStep
    \/ CloneClearTokenStep

SpecClone == Init /\ [][NextClone]_vars

\* C7: Clone returns a deep copy: no call on the clone c2 changes c's
\* currentContext, c's set of context names or any field of any entry of c.
C7_CloneIsDeep == [][View("c")' = View("c")]_vars

\* A call on the clone left it with a different current context, with other
\* names, or with another value in an entry that both still hold.
C7_Witness ==
    /\ cloned
    /\ call.target = "c2"
    /\ View("c2").CurrentContext # View("c").CurrentContext
    /\ DOMAIN View("c2").Entries # DOMAIN View("c").Entries
    /\ \E n \in DOMAIN View("c").Entries \cap DOMAIN View("c2").Entries :
          View("c2").Entries[n] # View("c").Entries[n]

----------------------------------------------------------------------------
(* SpecHost: FormatHost called repeatedly on one ClientConfiguration. *)

WS == <<"w", "s", ":", "/", "/">>

Schemes == {<<>>, HTTP, HTTPS, WS}

ExampleCom == <<"e", "x", "a", "m", "p", "l", "e", ".", "c", "o", "m">>

\* The hosts the documentation gives as examples.
ExampleHosts ==
    {ExampleCom, ExampleCom \o <<":">> \o Port443, HTTPS \o ExampleCom \o <<"/">>}

HostBodies == UNION {[1..n -> HostAlphabet] : n \in 0..MaxHostLen}

HostInputs == {s \o b : s \in Schemes, b \in HostBodies} \cup ExampleHosts

InitHost ==
    /\ IdleConfigurations
    /\ IdleCommandLine
    /\ recv \in {[ZeroClient EXCEPT !.Host = h] : h \in HostInputs}
    /\ call = NoCall
    /\ pre = recv

CallFormatHost ==
    /\ call.n < MaxFormatCalls
    /\ recv' = FormatHost(recv)
    /\ pre' = recv
    /\ call' = [op |-> "FormatHost", n |-> call.n + 1]
    /\ UNCHANGED <<heap, conf, cloned, panicked, files, hook>>

NextHost == CallFormatHost

SpecHost == InitHost /\ [][NextHost]_vars

\* C1: FormatHost is idempotent: a second call on the same receiver leaves the
\* Host the first call produced, for every host string.
C1_FormatHostIdempotent ==
    (call.op = "FormatHost" /\ call.n >= 2) => recv.Host = pre.Host

\* A host string without one trailing "/".
StripSlash(h) ==
    IF h # <<>> /\ h[Len(h)] = "/" THEN SubSeq(h, 1, Len(h) - 1) ELSE h

\* Where the string has a ":".
ColonsOf(h) == {i \in 1..Len(h) : h[i] = ":"}

\* The string has a scheme: it holds "://".
HasScheme(h) ==
    \E i \in 1..(Len(h) - 2) : h[i] = ":" /\ h[i + 1] = "/" /\ h[i + 2] = "/"

\* The string is <name>:<port> with a name that is not empty and a port
\* without ":".
LastColon(h) == CHOOSE k \in ColonsOf(h) : \A j \in ColonsOf(h) : j <= k
HasNameAndPort(h) == ColonsOf(h) # {} /\ LastColon(h) > 1
PortOf(h) == SubSeq(h, LastColon(h) + 1, Len(h))

\* The last call was FormatHost on a host of one of the five shapes of C11,
\* seen after removing one trailing "/": without scheme, either without ":"
\* or <name>:<port>; with a scheme and no ":" but the scheme's.
FormattedShapedHost ==
    /\ call.op = "FormatHost"
    /\ pre.Host # <<>>
    /\ LET s == StripSlash(pre.Host)
       IN  IF HasScheme(s) THEN Cardinality(ColonsOf(s)) = 1
           ELSE ColonsOf(s) = {} \/ HasNameAndPort(s)

\* C11: FormatHost, after removing one trailing "/", maps a host with neither
\* scheme nor port to http://<host>:80, <host>:443 to https://<host>:443,
\* <host>:<port> with another port to http://<host>:<port>, an https host
\* without port to itself with :443 appended, and a host of another scheme
\* without port to itself with :80 appended.
C11_FormatHostShapes ==
    FormattedShapedHost =>
        LET s == StripSlash(pre.Host)
        IN  recv.Host =
              IF ~HasScheme(s)
              THEN IF ColonsOf(s) = {} THEN HTTP \o s \o <<":">> \o Port80
                   ELSE IF PortOf(s) = Port443 THEN HTTPS \o s
                   ELSE HTTP \o s
              ELSE IF HasPrefix(s, HTTPS) THEN s \o <<":">> \o Port443
                   ELSE s \o <<":">> \o Port80

\* C11, the examples: example.com, example.com:443 and https://example.com/.
C11_FormatHostExamples ==
    call.op = "FormatHost" =>
        /\ pre.Host = ExampleCom =>
               recv.Host = HTTP \o ExampleCom \o <<":">> \o Port80
        /\ pre.Host = ExampleCom \o <<":">> \o Port443 =>
               recv.Host = HTTPS \o ExampleCom \o <<":">> \o Port443
        /\ pre.Host = HTTPS \o ExampleCom \o <<"/">> =>
               recv.Host = HTTPS \o ExampleCom \o <<":">> \o Port443

----------------------------------------------------------------------------
(* SpecFill: one Fill(other) on one ClientConfiguration. *)

FillHosts == {<<>>, <<"a">>, <<"b", "/">>, HTTP \o <<"a">> \o <<":">> \o Port80}
Tokens == {"", "t1", "t2"}
Timeouts == {"", "5s", "2h45m"}

FillClients ==
    [Host : FillHosts, Authentication : Authentications, Token : Tokens,
     Timeout : Timeouts, Debug : BOOLEAN]

InitFill ==
    /\ IdleConfigurations
    /\ IdleCommandLine
    /\ recv \in FillClients
    /\ call = NoCall
    /\ pre = recv

CallFill(other) ==
    /\ call.op = "none"
    /\ LET r == Fill(recv, other)
       IN  /\ recv' = r.c
           /\ call' = [op |-> "Fill", n |-> 1, other |-> other, ret |-> r.ret]
    /\ pre' = recv
    /\ UNCHANGED <<heap, conf, cloned, panicked, files, hook>>

NextFill == \E other \in FillClients : CallFill(other)

SpecFill == InitFill /\ [][NextFill]_vars

\* The case of C3: Fill was called with a non-empty host that is not the
\* receiver's.
FilledOtherHost ==
    /\ call.op = "Fill"
    /\ call.other.Host # <<>>
    /\ call.other.Host # pre.Host

\* C3 as stated: after Fill the receiver's host is other's host as supplied.
C3_FillHostAsSupplied ==
    FilledOtherHost => recv.Host = call.other.Host

\* C3, amended: after Fill the receiver's host is the normalized form
\* (FormatHost) of other's host, because Fill ends by calling IsValid.
C3_FillHostNormalized ==
    FilledOtherHost => recv.Host = FormatHost(call.other).Host

\* Fill took other's host and normalization changed it.
C3_Witness ==
    FilledOtherHost /\ recv.Host # call.other.Host

\* C10: after Fill, token and timeout are other's when other's is non-empty
\* and the receiver's own otherwise; authentication is other's when present and
\* the receiver's own otherwise; debug is other's; and the result is the
\* validity of the receiver after the merge.
C10_FillFields ==
    call.op = "Fill" =>
        /\ recv.Token = (IF call.other.Token # "" THEN call.other.Token
                         ELSE pre.Token)
        /\ recv.Timeout = (IF call.other.Timeout # "" THEN call.other.Timeout
                           ELSE pre.Timeout)
        /\ recv.Authentication =
               (IF call.other.Authentication # NilAuth
                THEN call.other.Authentication ELSE pre.Authentication)
        /\ recv.Debug = call.other.Debug
        /\ call.ret = (/\ recv.Host # <<>>
                       /\ (recv.Token # "" \/ recv.Authentication # NilAuth))

\* Fill replaced a token, a timeout and credentials of another kind, and
\* reported the receiver valid.
C10_Witness ==
    /\ call.op = "Fill"
    /\ pre.Token # "" /\ call.other.Token \notin {"", pre.Token}
    /\ pre.Timeout # "" /\ call.other.Timeout \notin {"", pre.Timeout}
    /\ pre.Authentication # NilAuth
    /\ call.other.Authentication \notin {NilAuth, pre.Authentication}
    /\ pre.Debug /\ ~call.other.Debug
    /\ call.ret

----------------------------------------------------------------------------
(* SpecLookup: the search of a directory for a configuration file.  A file  *)
(* of the directory is known by what each unmarshaler returns on its bytes; *)
(* one call is made on a directory, with a fresh *Configuration to fill.    *)

\* tries := []UnmarshalFunc{ConfigurationUnmarshalJSON, ConfigurationUnmarshalYAML}
Tries == <<"JSON", "YAML">>

configurationPossibleFilenames ==
    <<"lenses.yml", "lenses.yaml", "lenses.json",
      ".lenses.yml", ".lenses.yaml", ".lenses.json",
      "lenses-cli.yml", "lenses-cli.yaml", "lenses-cli.json",
      ".lenses-cli.yml", ".lenses-cli.yaml", ".lenses-cli.json">>

\* A file's bytes, as the outcome of each UnmarshalFunc on them: TRUE when it
\* returns a nil error.
Documents == [JSON : BOOLEAN, YAML : BOOLEAN]

\* The *Configuration a caller passes in, before anything was decoded into it.
NoDocument == [filename |-> "", unmarshaler |-> ""]

\* The error values.
Nil == [kind |-> "nil", detail |-> ""]
OpenError(filename) == [kind |-> "open", detail |-> filename]
UnmarshalError(unmarshaler) == [kind |-> "unmarshal", detail |-> unmarshaler]
NotCompatibleError(filename) ==
    [kind |-> "does not exist or it is not formatted to a compatible document",
     detail |-> filename]

\* ReadConfigurationFromFile(filename, unmarshaler, outPtr) in directory fs:
\* the error of os.Open, else the error of the unmarshaler.
ReadConfigurationFromFile(fs, filename, unmarshaler, out) ==
    IF filename \notin DOMAIN fs
    THEN [err |-> OpenError(filename), out |-> out]
    ELSE IF fs[filename][unmarshaler]
         THEN [err |-> Nil,
               out |-> [filename |-> filename, unmarshaler |-> unmarshaler]]
         ELSE [err |-> UnmarshalError(unmarshaler), out |-> out]

\* The loop of TryReadConfigurationFromFile from the i-th unmarshaler on;
\* tried lists the unmarshalers it ran.
RECURSIVE TryFrom(_, _, _, _)
TryFrom(fs, filename, i, out) ==
    IF i > Len(Tries)
    THEN [err |-> NotCompatibleError(filename), tried |-> <<>>, out |-> out]
    ELSE LET r == ReadConfigurationFromFile(fs, filename, Tries[i], out)
         IN  IF r.err = Nil
             THEN [err |-> Nil, tried |-> <<Tries[i]>>, out |-> r.out]
             ELSE LET rest == TryFrom(fs, filename, i + 1, r.out)
                  IN  [rest EXCEPT !.tried = <<Tries[i]>> \o @]

TryReadConfigurationFromFile(fs, filename, out) == TryFrom(fs, filename, 1, out)

\* A variant of lookupConfiguration that gives up when the first filename
\* cannot be read.
lookupConfiguration_StopAtFailure(fs, out) ==
    LET filename == configurationPossibleFilenames[1]
        r == TryReadConfigurationFromFile(fs, filename, out)
    IN  [ret |-> r.err = Nil,
         tried |-> [k \in 1..Len(r.tried) |-> <<filename, r.tried[k]>>],
         out |-> r.out]

\* The loop of lookupConfiguration from the i-th filename on; tried lists the
\* filename and unmarshaler of every ReadConfigurationFromFile it ran.
RECURSIVE LookupFrom(_, _, _)
LookupFrom(fs, i, out) ==
    IF i > Len(configurationPossibleFilenames)
    THEN [ret |-> FALSE, tried |-> <<>>, out |-> out]
    ELSE LET filename == configurationPossibleFilenames[i]
             r == TryReadConfigurationFromFile(fs, filename, out)
             ran == [k \in 1..Len(r.tried) |-> <<filename, r.tried[k]>>]
         IN  IF r.err = Nil
             THEN [ret |-> TRUE, tried |-> ran, out |-> r.out]
             ELSE LET rest == LookupFrom(fs, i + 1, r.out)
                  IN  [rest EXCEPT !.tried = ran \o @]

\* lookupConfiguration(dir, outPtr), dir holding the files fs.
lookupConfiguration(fs, out) == LookupFrom(fs, 1, out)

FilenameSet ==
    {configurationPossibleFilenames[i] :
        i \in 1..Len(configurationPossibleFilenames)}

\* The directories: at most MaxFiles of the filenames exist.
Directories ==
    UNION {[S -> Documents] :
              S \in {T \in SUBSET FilenameSet : Cardinality(T) <= MaxFiles}}

InitLookup ==
    /\ IdleConfigurations
    /\ recv = ZeroClient
    /\ pre = recv
    /\ call = NoCall
    /\ files \in Directories
    /\ hook = IdleHook

CallTryRead(filename) ==
    /\ call.op = "none"
    /\ LET r == TryReadConfigurationFromFile(files, filename, NoDocument)
       IN  call' = [op |-> "TryReadConfigurationFromFile", n |-> 1,
                    filename |-> filename, err |-> r.err, tried |-> r.tried,
                    out |-> r.out]
    /\ UNCHANGED <<heap, conf, cloned, panicked, recv, pre, files, hook>>

CallLookup ==
    /\ call.op = "none"
    /\ LET r == lookupConfiguration(files, NoDocument)
       IN  call' = [op |-> "lookupConfiguration", n |-> 1, ret |-> r.ret,
                    tried |-> r.tried, out |-> r.out]
    /\ UNCHANGED <<heap, conf, cloned, panicked, recv, pre, files, hook>>

TryReadStep == \E filename \in FilenameSet : CallTryRead(filename)

NextLookup ==
    \/ TryReadStep
    \/ CallLookup

SpecLookup == InitLookup /\ [][NextLookup]_vars

\* The directory fs without the file filename.
Without(fs, filename) == [f \in DOMAIN fs \ {filename} |-> fs[f]]

\* C12: the error of TryReadConfigurationFromFile for a file that exists and
\* that no unmarshaler decodes differs from its error for the same file
\* missing: the two cases never get the same outcome.
C12_MissingAndUndecodableDiffer ==
    (/\ call.op = "TryReadConfigurationFromFile"
     /\ call.filename \in DOMAIN files
     /\ call.err # Nil)
    => call.err #
         TryReadConfigurationFromFile(Without(files, call.filename),
                                      call.filename, NoDocument).err

\* Every combination of filename and unmarshaler, in the order of the search.
Combinations ==
    [k \in 1..(Len(configurationPossibleFilenames) * Len(Tries)) |->
        <<configurationPossibleFilenames[((k - 1) \div Len(Tries)) + 1],
          Tries[((k - 1) % Len(Tries)) + 1]>>]

\* The file of combination k exists and its unmarshaler decodes it.
Decodes(k) ==
    /\ Combinations[k][1] \in DOMAIN files
    /\ files[Combinations[k][1]][Combinations[k][2]]

\* C13: lookupConfiguration returns true exactly when one of the twelve
\* filenames exists and JSON or YAML decodes it; it tries the filenames in the
\* order of the list, JSON before YAML; it stops at the first combination that
\* decodes, and no missing file or failed decode before that stops it.
C13_LookupOrder ==
    call.op = "lookupConfiguration" =>
        /\ call.ret <=> \E f \in FilenameSet \cap DOMAIN files :
                           files[f].JSON \/ files[f].YAML
        /\ Len(call.tried) <= Len(Combinations)
        /\ \A k \in 1..Len(call.tried) : call.tried[k] = Combinations[k]
        /\ \A k \in 1..(Len(call.tried) - 1) : ~Decodes(k)
        /\ IF call.ret
           THEN /\ Decodes(Len(call.tried))
                /\ call.out = [filename |-> Combinations[Len(call.tried)][1],
                               unmarshaler |-> Combinations[Len(call.tried)][2]]
           ELSE Len(call.tried) = Len(Combinations)

\* The search passed a missing file and a file no unmarshaler decodes, and
\* then found a file that YAML decodes and JSON does not.
C13_Witness ==
    /\ call.op = "lookupConfiguration"
    /\ call.ret
    /\ call.out.unmarshaler = "YAML"
    /\ \E k \in 1..Len(call.tried) : call.tried[k][1] \notin DOMAIN files
    /\ \E k \in 1..Len(call.tried) :
          /\ call.tried[k][1] \in DOMAIN files
          /\ call.tried[k][1] # call.out.filename

----------------------------------------------------------------------------
(* SpecCli: one run of rootCmd.PersistentPreRunE for a command.  What        *)
(* configManager.load(), the configure command and OpenConnection return is *)
(* chosen by the environment.                                               *)

LoadError == [kind |-> "load", detail |-> ""]
ConfigureError == [kind |-> "configure", detail |-> ""]
ConnectionError == [kind |-> "connection", detail |-> ""]
NotReturned == [kind |-> "not returned", detail |-> ""]

\* cmd.Name(): the commands the hook names, and one other.
Commands == {"configure", "context", "contexts", "login", "live", "topics"}

\* The commands the hook returns for right after the first load.
ConfigureCommands == {"configure", "context", "contexts"}

\* The hook as it starts for command cmd.  ok and err are the hook's
\* variables; loads counts the calls of load and loadedOk, loadedErr keep what
\* the last of them returned; runs counts the runs of the configure command
\* and ranSinceLoad tells whether it ran after the last load.
StartHook(cmd) ==
    [pc |-> "load", cmd |-> cmd, ok |-> FALSE, err |-> Nil,
     loads |-> 0, loadedOk |-> FALSE, loadedErr |-> Nil,
     runs |-> 0, ranSinceLoad |-> FALSE, tokenCleared |-> FALSE,
     connected |-> FALSE, ret |-> NotReturned]

\* return e
Return(h, e) == [h EXCEPT !.pc = "done", !.ret = e]

\* ok, err = configManager.load(), then on to pc.
Load(h, ok, err, pc) ==
    [h EXCEPT !.pc = pc, !.ok = ok, !.err = err, !.loads = @ + 1,
              !.loadedOk = ok, !.loadedErr = err, !.ranSinceLoad = FALSE]

\* if name == "configure" || name == "context" || name == "contexts"
\*     { return nil }
CheckName(h) ==
    IF h.cmd \in ConfigureCommands THEN Return(h, Nil)
    ELSE [h EXCEPT !.pc = "loop"]

\* A variant of LoopHead that runs the configure command whatever load
\* returned as error.
LoopHead_IgnoresError(h) ==
    IF h.ok THEN [h EXCEPT !.pc = "loaded"]
    ELSE [h EXCEPT !.pc = "configure"]

\* for !ok { if err != nil { return err } ...
LoopHead(h) ==
    IF h.ok THEN [h EXCEPT !.pc = "loaded"]
    ELSE IF h.err # Nil THEN Return(h, h.err)
    ELSE [h EXCEPT !.pc = "configure"]

\* if err = configureCmd.Execute(); err != nil { return err }
Configure(h, e) ==
    LET h1 == [h EXCEPT !.err = e, !.runs = @ + 1, !.ranSinceLoad = TRUE]
    IN  IF e # Nil THEN Return(h1, e) ELSE [h1 EXCEPT !.pc = "reload"]

\* After the loop: the login command, the live command, every other command.
\* incomplete: the current context has basic authentication and lacks a
\* host, a username or a password.
Loaded(h, incomplete) ==
    IF h.cmd = "login"
    THEN LET h1 == [h EXCEPT !.tokenCleared = TRUE]
         IN  IF incomplete THEN [h1 EXCEPT !.pc = "loginConfigure"]
             ELSE Return(h1, Nil)
    ELSE IF h.cmd = "live" THEN Return(h, h.err)
    ELSE [h EXCEPT !.pc = "setupClient"]

\* if err := newConfigureCommand().Execute(); err != nil { return err }
\* ... return nil
LoginConfigure(h, e) ==
    Return([h EXCEPT !.runs = @ + 1, !.ranSinceLoad = TRUE], e)

\* return setupClient(): client, err = lenses.OpenConnection(...)
SetupClient(h, e) == Return([h EXCEPT !.connected = TRUE, !.err = e], e)

InitCli ==
    /\ IdleConfigurations
    /\ recv = ZeroClient
    /\ pre = recv
    /\ call = NoCall
    /\ files = <<>>
    /\ hook \in {StartHook(cmd) : cmd \in Commands}

HookStep(h) ==
    /\ hook' = h
    /\ UNCHANGED <<heap, conf, cloned, panicked, recv, call, pre, files>>

HookLoad ==
    /\ hook.pc = "load"
    /\ \E ok \in BOOLEAN, err \in {Nil, LoadError} :
          HookStep(Load(hook, ok, err, "name"))

HookCheckName ==
    /\ hook.pc = "name"
    /\ HookStep(CheckName(hook))

HookLoopHead ==
    /\ hook.pc = "loop"
    /\ HookStep(LoopHead(hook))

HookConfigure ==
    /\ hook.pc = "configure"
    /\ hook.runs < MaxConfigureRuns
    /\ \E e \in {Nil, ConfigureError} : HookStep(Configure(hook, e))

HookReload ==
    /\ hook.pc = "reload"
    /\ \E ok \in BOOLEAN, err \in {Nil, LoadError} :
          HookStep(Load(hook, ok, err, "loop"))

HookLoaded ==
    /\ hook.pc = "loaded"
    /\ \E incomplete \in BOOLEAN : HookStep(Loaded(hook, incomplete))

HookLoginConfigure ==
    /\ hook.pc = "loginConfigure"
    /\ \E e \in {Nil, ConfigureError} : HookStep(LoginConfigure(hook, e))

HookSetupClient ==
    /\ hook.pc = "setupClient"
    /\ \E e \in {Nil, ConnectionError} : HookStep(SetupClient(hook, e))

NextCli ==
    \/ HookLoad
    \/ HookCheckName
    \/ HookLoopHead
    \/ HookConfigure
    \/ HookReload
    \/ HookLoaded
    \/ HookLoginConfigure
    \/ HookSetupClient

SpecCli == InitCli /\ [][NextCli]_vars

\* The connection is opened only after the last load reported ok, and never
\* for configure, context, contexts, login and live.
ConnectsAfterOk ==
    hook.connected =>
        /\ hook.loads > 0
        /\ hook.loadedOk
        /\ hook.cmd \notin ConfigureCommands \cup {"login", "live"}

\* The hook returned after a load that reported not-ok together with an error.
ReturnedAfterFailedLoad ==
    /\ hook.pc = "done"
    /\ hook.loads > 0
    /\ ~hook.loadedOk
    /\ hook.loadedErr # Nil

\* The hook returned the error of the last load, ran no configure command
\* after that load and did not connect.
ReturnedLoadError ==
    /\ hook.ret = hook.loadedErr
    /\ ~hook.ranSinceLoad
    /\ ~hook.connected

\* C16, as stated: the connection is opened only after the last load reported
\* ok and never for configure, context, contexts, login and live; and when
\* load reports not-ok together with an error, the hook returns that error
\* without running the configure command and without connecting.
C16_LoadErrorReturned ==
    /\ ConnectsAfterOk
    /\ ReturnedAfterFailedLoad => ReturnedLoadError

\* C16, amended: as above, but the load's error is returned for every command
\* other than configure, context and contexts; for these three the hook
\* returns nil whatever load reported, runs no configure command and does not
\* connect.
C16_LoadErrorReturnedUnlessConfigure ==
    /\ ConnectsAfterOk
    /\ (ReturnedAfterFailedLoad /\ hook.cmd \notin ConfigureCommands)
          => ReturnedLoadError
    /\ (hook.pc = "done" /\ hook.cmd \in ConfigureCommands)
          => /\ hook.ret = Nil
             /\ hook.runs = 0
             /\ ~hook.connected

\* The configure command ran once, the load after it reported not-ok with an
\* error, and the hook returned that error.
C16_Witness ==
    /\ ReturnedAfterFailedLoad
    /\ hook.cmd = "topics"
    /\ hook.runs > 0
    /\ hook.ret = LoadError

====
